---- MODULE Spec2Model ----
(*************************************************************************)
(* ChatZilla signaling server: the room registry (lib/rooms.js), the     *)
(* HTTP handlers of index.js (join, signal, leave, event stream, the     *)
(* stream close handler and the heartbeat timer), the serverless Join   *)
(* handler of api/join.js and sendSignal of public/app.js.               *)
(*                                                                       *)
(* Node runs the handlers on one thread.  An async handler is suspended  *)
(* only at `await parseBody(req)`, its first statement, and touches no   *)
(* shared state before it; what follows runs to the end without          *)
(* interruption.  handleEventStream, the close handler and the heartbeat *)
(* callback are synchronous.                                             *)
(*   Spec      : every handler is one step, from its body to its answer. *)
(*   SpecAsync : a request first arrives and its handler is suspended    *)
(*               (Receive); a later step reads the body and runs the     *)
(*               rest (Resume..), so that several handlers are           *)
(*               suspended at once and resume in any order.              *)
(*   SpecWire  : Joins, Open-streams, Signals and heartbeats as in Spec, *)
(*               with every write kept in call order across the steps.   *)
(*   SpecClient: one browser calls sendSignal against the server, whose  *)
(*               answer and the browser's delay timer are weakly fair.   *)
(*   SpecApi   : Joins handled by api/join.js over the same registry.    *)
(*                                                                       *)
(* Strings are sequences of one-character strings, so that trim() and    *)
(* slice() are computed.  A JSON value is a tagged record.               *)
(*************************************************************************)
EXTENDS Integers, Sequences, FiniteSets, TLC

(***************************** bounds ************************************)
MaxClients  == 2   \* client ids the generator hands out
MaxStreams  == 2   \* event streams that are opened
MaxInFlight == 2   \* handlers suspended in parseBody at one time (SpecAsync)
MaxWire     == 8   \* writes recorded in order across steps (SpecWire)

(************************** JSON values **********************************)
Undefined == [t |-> "undefined"]
Str(s)    == [t |-> "string", s |-> s]
Obj(k)    == [t |-> "object", k |-> k]

\* JavaScript truthiness of a parsed body field (`!room`, `room ? .. : ''`).
Truthy(v) ==
  \/ v.t = "object"
  \/ v.t = "string" /\ v.s # << >>

\* String(v)
String(v) ==
  IF v.t = "string" THEN v.s
  ELSE IF v.t = "undefined" THEN <<"u","n","d","e","f","i","n","e","d">>
  ELSE <<"[","o","b","j","e","c","t"," ","O","b","j","e","c","t","]">>

IsSpace(c) == c \in {" ", "\t", "\n"}

RECURSIVE TrimStart(_)
TrimStart(s) ==
  IF s = << >> THEN << >>
  ELSE IF IsSpace(Head(s)) THEN TrimStart(Tail(s)) ELSE s

RECURSIVE TrimEnd(_)
TrimEnd(s) ==
  IF s = << >> THEN << >>
  ELSE IF IsSpace(s[Len(s)]) THEN TrimEnd(SubSeq(s, 1, Len(s) - 1)) ELSE s

\* String.prototype.trim
Trim(s) == TrimEnd(TrimStart(s))

\* String.prototype.slice(from, to) for 0 <= from <= to
Slice(s, from, to) ==
  SubSeq(s, from + 1, IF to < Len(s) THEN to ELSE Len(s))

NameLimit == 64

\* const roomId = room ? String(room).trim() : '';
RoomIdOf(room) == IF Truthy(room) THEN Trim(String(room)) ELSE << >>

\* const userName = name ? String(name).trim().slice(0, 64) : '';
UserNameOf(name) ==
  IF Truthy(name) THEN Slice(Trim(String(name)), 0, NameLimit) ELSE << >>

(************************** input domains ********************************)
LongName == [i \in 1..(NameLimit + 1) |-> "x"]

Digit == <<"1", "2", "3", "4", "5", "6", "7", "8", "9">>

\* the n-th identifier produced by generateClientId: fresh on every call
IdOf(n) == <<"c", Digit[n]>>

RoomA == Str(<<"a">>)
RoomB == Str(<<"b">>)
PaddedRoomA == Str(<<" ", "a">>)      \* trims to room a
BlankRoom == Str(<<" ">>)             \* truthy, empty after trim
NameA == Str(<<"A", " ">>)            \* trims to A
BlankName == Str(<<" ">>)
Offer == Obj("offer")

KnownRooms == { RoomA, RoomB }
KnownIds == { Str(IdOf(n)) : n \in 1..MaxClients }

BadJson == [t |-> "invalid"]

JoinBody(r, n) == [t |-> "body", room |-> r, name |-> n]
JoinBodies ==
  { JoinBody(r, n) : r \in { PaddedRoomA, RoomB }, n \in { NameA, Str(LongName) } }
  \cup { BadJson, JoinBody(Undefined, NameA), JoinBody(BlankRoom, NameA),
         JoinBody(RoomA, Undefined), JoinBody(RoomA, BlankName) }
\* the Joins of SpecAsync all give the same name
AsyncJoinBodies == { b \in JoinBodies : b.t = "body" => b.name = NameA }

SignalBody(r, f, g, d) ==
  [t |-> "body", room |-> r, from |-> f, target |-> g, data |-> d]
SignalBodies ==
  { SignalBody(r, Str(IdOf(f)), Str(IdOf(3 - f)), Offer) :
      r \in KnownRooms, f \in 1..2 }
  \cup { BadJson,
         SignalBody(PaddedRoomA, Str(IdOf(2)), Str(IdOf(1)), Offer),
         SignalBody(Undefined, Str(IdOf(2)), Str(IdOf(1)), Offer),
         SignalBody(RoomA, Undefined, Str(IdOf(1)), Offer),
         SignalBody(RoomA, Str(IdOf(2)), Str(<< >>), Offer),
         SignalBody(RoomA, Str(IdOf(2)), Str(IdOf(1)), Undefined) }

LeaveBody(r, c) == [t |-> "body", room |-> r, clientId |-> c]
LeaveBodies ==
  { LeaveBody(r, c) : r \in KnownRooms, c \in KnownIds }
  \cup { BadJson, LeaveBody(PaddedRoomA, Str(IdOf(1))),
         LeaveBody(Undefined, Str(IdOf(1))), LeaveBody(RoomA, Undefined) }

\* the query parameters of GET /events
StreamParams ==
  { << r, c >> : r \in KnownRooms, c \in KnownIds }
  \cup { << PaddedRoomA, Str(IdOf(1)) >>, << Undefined, Str(IdOf(1)) >>,
         << RoomA, Undefined >> }

(************************** session tables *******************************)
\* A room's `clients` Map: a sequence of [id, name, res] in insertion
\* order.  res = Null is `res: null`, otherwise the number of a stream.
Null == 0

Ids(clients) == { clients[i].id : i \in 1..Len(clients) }
Has(clients, id) == id \in Ids(clients)
Get(clients, id) ==
  clients[CHOOSE i \in 1..Len(clients) : clients[i].id = id]
Delete(clients, id) == SelectSeq(clients, LAMBDA c : c.id # id)
\* Map.set: replaces in place, or appends
Set(clients, id, val) ==
  IF Has(clients, id)
  THEN [i \in 1..Len(clients) |->
          IF clients[i].id = id
          THEN [id |-> id, name |-> val.name, res |-> val.res]
          ELSE clients[i]]
  ELSE Append(clients, [id |-> id, name |-> val.name, res |-> val.res])

NoRooms == [r \in {} |-> << >>]

RoomsSet(reg, roomId, clients) ==
  [r \in DOMAIN reg \cup {roomId} |-> IF r = roomId THEN clients ELSE reg[r]]
RoomsDelete(reg, roomId) ==
  [r \in DOMAIN reg \ {roomId} |-> reg[r]]

\* getRoom: the registry after the call (the room is then reg[roomId])
\* getRoom that makes a new room object on every call
GetRoomAlwaysNew(reg, roomId) ==
  RoomsSet(reg, roomId, << >>)

\* getRoom
GetRoom(reg, roomId) ==
  IF roomId \in DOMAIN reg THEN reg ELSE RoomsSet(reg, roomId, << >>)

(************************** effects **************************************)
\* What one step does, in program order:
\*   [e |-> "request", op]            the kind of request or event handled
\*   [e |-> "respond", status, body]  writeHead + end of its HTTP response
\*   [e |-> "write", s, w]            res.write on stream s
\*   [e |-> "end", s]                 res.end() on stream s
\*   [e |-> "delete", id]             clients.delete(id) removed an entry
Request(op) == [e |-> "request", op |-> op]
Respond(status, body) == [e |-> "respond", status |-> status, body |-> body]
Write(s, w) == [e |-> "write", s |-> s, w |-> w]
End(s) == [e |-> "end", s |-> s]
Deleted(id) == [e |-> "delete", id |-> id]

ErrorBody(msg) == [error |-> msg]
TextBody(msg) == [text |-> msg]
NoBody == [none |-> TRUE]

\* sendEvent that lets a keep-alive write in between its two writes
SendEventPingInside(s, event, payload) ==
  << Write(s, [k |-> "event", ev |-> event]),
     Write(s, [k |-> "ping"]),
     Write(s, [k |-> "data", ev |-> event, p |-> payload]) >>

\* sendEvent: two writes
SendEvent(s, event, payload) ==
  << Write(s, [k |-> "event", ev |-> event]),
     Write(s, [k |-> "data", ev |-> event, p |-> payload]) >>

RECURSIVE BroadcastTo(_, _, _, _)
BroadcastTo(clients, excludeClientId, event, payload) ==
  IF clients = << >> THEN << >>
  ELSE LET c == Head(clients)
           rest == BroadcastTo(Tail(clients), excludeClientId, event, payload)
       IN IF c.id = excludeClientId THEN rest
          ELSE IF c.res # Null THEN SendEvent(c.res, event, payload) \o rest
          ELSE rest

\* broadcast whose loop passes over the first entry of the Map
BroadcastSkipsFirst(reg, roomId, excludeClientId, event, payload) ==
  IF roomId \notin DOMAIN reg \/ reg[roomId] = << >> THEN << >>
  ELSE BroadcastTo(Tail(reg[roomId]), excludeClientId, event, payload)

\* broadcast that goes on through the Map of another room
BroadcastEveryRoom(reg, roomId, excludeClientId, event, payload) ==
  IF roomId \notin DOMAIN reg THEN << >>
  ELSE IF DOMAIN reg = { roomId }
  THEN BroadcastTo(reg[roomId], excludeClientId, event, payload)
  ELSE BroadcastTo(reg[roomId], excludeClientId, event, payload)
       \o BroadcastTo(reg[CHOOSE r \in DOMAIN reg : r # roomId],
                      excludeClientId, event, payload)

\* broadcast
Broadcast(reg, roomId, excludeClientId, event, payload) ==
  IF roomId \notin DOMAIN reg THEN << >>
  ELSE BroadcastTo(reg[roomId], excludeClientId, event, payload)

(************************** the handlers *********************************)
\* Each handler is a function of the registry and its input; it yields the
\* registry after it ran and its effects in program order.

\* the peer list that names the sessions with a stream only
PeersOfAttached(clients) ==
  LET on == SelectSeq(clients, LAMBDA c : c.res # Null)
  IN [i \in 1..Len(on) |-> [clientId |-> on[i].id, name |-> on[i].name]]

\* existingPeers: the entries of the Map in insertion order
PeersOf(clients) ==
  [i \in 1..Len(clients) |-> [clientId |-> clients[i].id, name |-> clients[i].name]]

\* handleJoin that takes the peer snapshot after it inserted the caller
HandleJoinSnapshotLate(reg, n, body) ==
  IF body.t = "invalid"
  THEN [rooms |-> reg, effs |-> << Respond(400, ErrorBody("Invalid JSON body")) >>]
  ELSE IF RoomIdOf(body.room) = << >> \/ UserNameOf(body.name) = << >>
  THEN [rooms |-> reg, effs |-> << Respond(400, ErrorBody("Missing room or name")) >>]
  ELSE
    LET roomId == RoomIdOf(body.room)
        userName == UserNameOf(body.name)
        reg1 == GetRoom(reg, roomId)
        clientId == IdOf(n)
        reg2 == RoomsSet(reg1, roomId,
                  Set(reg1[roomId], clientId, [name |-> userName, res |-> Null]))
    IN [rooms |-> reg2,
        effs |-> << Respond(200, [clientId |-> clientId, room |-> roomId,
                                   peers |-> PeersOf(reg2[roomId])]) >>
                 \o Broadcast(reg2, roomId, clientId, "peer-joined",
                              [clientId |-> clientId, name |-> userName])]

\* handleJoin that broadcasts peer-joined before it answers
HandleJoinBroadcastsFirst(reg, n, body) ==
  IF body.t = "invalid"
  THEN [rooms |-> reg, effs |-> << Respond(400, ErrorBody("Invalid JSON body")) >>]
  ELSE IF RoomIdOf(body.room) = << >> \/ UserNameOf(body.name) = << >>
  THEN [rooms |-> reg, effs |-> << Respond(400, ErrorBody("Missing room or name")) >>]
  ELSE
    LET roomId == RoomIdOf(body.room)
        userName == UserNameOf(body.name)
        reg1 == GetRoom(reg, roomId)
        clientId == IdOf(n)
        reg2 == RoomsSet(reg1, roomId,
                  Set(reg1[roomId], clientId, [name |-> userName, res |-> Null]))
    IN [rooms |-> reg2,
        effs |-> Broadcast(reg2, roomId, clientId, "peer-joined",
                           [clientId |-> clientId, name |-> userName])
                 \o << Respond(200, [clientId |-> clientId, room |-> roomId,
                                      peers |-> PeersOf(reg1[roomId])]) >>]

\* handleJoin that calls getRoom before it validates the name
HandleJoinRoomBeforeCheck(reg, n, body) ==
  IF body.t = "invalid"
  THEN [rooms |-> reg, effs |-> << Respond(400, ErrorBody("Invalid JSON body")) >>]
  ELSE IF RoomIdOf(body.room) = << >>
  THEN [rooms |-> reg, effs |-> << Respond(400, ErrorBody("Missing room or name")) >>]
  ELSE
    LET roomId == RoomIdOf(body.room)
        userName == UserNameOf(body.name)
        reg1 == GetRoom(reg, roomId)
        clientId == IdOf(n)
        reg2 == RoomsSet(reg1, roomId,
                  Set(reg1[roomId], clientId, [name |-> userName, res |-> Null]))
    IN IF userName = << >>
       THEN [rooms |-> reg1,
             effs |-> << Respond(400, ErrorBody("Missing room or name")) >>]
       ELSE [rooms |-> reg2,
             effs |-> << Respond(200, [clientId |-> clientId, room |-> roomId,
                                        peers |-> PeersOf(reg1[roomId])]) >>
                      \o Broadcast(reg2, roomId, clientId, "peer-joined",
                                   [clientId |-> clientId, name |-> userName])]

\* handleJoin after `await parseBody(req)`; n is the generator's counter.
\* api/join.js runs the same statements after normalizeBody.
HandleJoinResult(reg, n, body) ==
  IF body.t = "invalid"
  THEN [rooms |-> reg, effs |-> << Respond(400, ErrorBody("Invalid JSON body")) >>]
  ELSE
    LET roomId == RoomIdOf(body.room)
        userName == UserNameOf(body.name)
    IN IF roomId = << >> \/ userName = << >>
       THEN [rooms |-> reg,
             effs |-> << Respond(400, ErrorBody("Missing room or name")) >>]
       ELSE
         LET reg1 == GetRoom(reg, roomId)
             existingPeers == PeersOf(reg1[roomId])
             clientId == IdOf(n)
             reg2 == RoomsSet(reg1, roomId,
                       Set(reg1[roomId], clientId, [name |-> userName, res |-> Null]))
         IN [rooms |-> reg2,
             effs |-> << Respond(200, [clientId |-> clientId, room |-> roomId,
                                        peers |-> existingPeers]) >>
                      \o Broadcast(reg2, roomId, clientId, "peer-joined",
                                   [clientId |-> clientId, name |-> userName])]

\* handleSignal that resolves the sender where it should resolve the target
HandleSignalToSender(reg, body) ==
  IF body.t = "invalid"
  THEN << Respond(400, ErrorBody("Invalid JSON body")) >>
  ELSE IF ~Truthy(body.room) \/ ~Truthy(body.from)
          \/ ~Truthy(body.target) \/ ~Truthy(body.data)
  THEN << Respond(400, ErrorBody("Missing required fields")) >>
  ELSE IF String(body.room) \notin DOMAIN reg
  THEN << Respond(404, ErrorBody("Room not found")) >>
  ELSE
    LET clients == reg[String(body.room)]
        target == String(body.from)
    IN IF ~Has(clients, target) \/ Get(clients, target).res = Null
       THEN << Respond(409, ErrorBody("Recipient unavailable")) >>
       ELSE SendEvent(Get(clients, target).res, "signal",
                      [from |-> body.from, data |-> body.data])
            \o << Respond(204, NoBody) >>

\* handleSignal that tests `!recipient` only: sendEvent on the null handle
\* throws and the catch block answers
HandleSignalNullHandleThrows(reg, body) ==
  IF body.t = "invalid"
  THEN << Respond(400, ErrorBody("Invalid JSON body")) >>
  ELSE IF ~Truthy(body.room) \/ ~Truthy(body.from)
          \/ ~Truthy(body.target) \/ ~Truthy(body.data)
  THEN << Respond(400, ErrorBody("Missing required fields")) >>
  ELSE IF String(body.room) \notin DOMAIN reg
  THEN << Respond(404, ErrorBody("Room not found")) >>
  ELSE
    LET clients == reg[String(body.room)]
        target == String(body.target)
    IN IF ~Has(clients, target)
       THEN << Respond(409, ErrorBody("Recipient unavailable")) >>
       ELSE IF Get(clients, target).res = Null
       THEN << Respond(400, ErrorBody("Invalid JSON body")) >>
       ELSE SendEvent(Get(clients, target).res, "signal",
                      [from |-> body.from, data |-> body.data])
            \o << Respond(204, NoBody) >>

\* handleSignal that answers an unknown target as it answers an unknown room
HandleSignalUnknownTarget404(reg, body) ==
  IF body.t = "invalid"
  THEN << Respond(400, ErrorBody("Invalid JSON body")) >>
  ELSE IF ~Truthy(body.room) \/ ~Truthy(body.from)
          \/ ~Truthy(body.target) \/ ~Truthy(body.data)
  THEN << Respond(400, ErrorBody("Missing required fields")) >>
  ELSE IF String(body.room) \notin DOMAIN reg
  THEN << Respond(404, ErrorBody("Room not found")) >>
  ELSE
    LET clients == reg[String(body.room)]
        target == String(body.target)
    IN IF ~Has(clients, target)
       THEN << Respond(404, ErrorBody("Room not found")) >>
       ELSE IF Get(clients, target).res = Null
       THEN << Respond(409, ErrorBody("Recipient unavailable")) >>
       ELSE SendEvent(Get(clients, target).res, "signal",
                      [from |-> body.from, data |-> body.data])
            \o << Respond(204, NoBody) >>

\* handleSignal after `await parseBody(req)`
HandleSignalResult(reg, body) ==
  IF body.t = "invalid"
  THEN << Respond(400, ErrorBody("Invalid JSON body")) >>
  ELSE IF ~Truthy(body.room) \/ ~Truthy(body.from)
          \/ ~Truthy(body.target) \/ ~Truthy(body.data)
  THEN << Respond(400, ErrorBody("Missing required fields")) >>
  ELSE IF String(body.room) \notin DOMAIN reg
  THEN << Respond(404, ErrorBody("Room not found")) >>
  ELSE
    LET clients == reg[String(body.room)]
        target == String(body.target)
    IN IF ~Has(clients, target) \/ Get(clients, target).res = Null
       THEN << Respond(409, ErrorBody("Recipient unavailable")) >>
       ELSE SendEvent(Get(clients, target).res, "signal",
                      [from |-> body.from, data |-> body.data])
            \o << Respond(204, NoBody) >>

\* removeClient that deletes the room without testing clients.size
RemoveClientDropsRoom(reg, roomId, clientId) ==
  IF roomId \notin DOMAIN reg \/ ~Has(reg[roomId], clientId)
  THEN [rooms |-> reg, effs |-> << >>]
  ELSE
    LET client == Get(reg[roomId], clientId)
        ended == IF client.res # Null THEN << End(client.res) >> ELSE << >>
    IN [rooms |-> RoomsDelete(reg, roomId),
        effs |-> ended \o << Deleted(clientId) >>]

\* removeClient without `rooms.delete(roomId)`: the emptied room stays
RemoveClientKeepsRoom(reg, roomId, clientId) ==
  IF roomId \notin DOMAIN reg \/ ~Has(reg[roomId], clientId)
  THEN [rooms |-> reg, effs |-> << >>]
  ELSE
    LET client == Get(reg[roomId], clientId)
        ended == IF client.res # Null THEN << End(client.res) >> ELSE << >>
        reg1 == RoomsSet(reg, roomId, Delete(reg[roomId], clientId))
    IN [rooms |-> reg1,
        effs |-> ended \o << Deleted(clientId) >>
                 \o Broadcast(reg1, roomId, clientId, "peer-left",
                              [clientId |-> clientId])]

\* removeClient without `if (!client) return`: delete() of an absent id
\* removes nothing, and the peers are told again
RemoveClientNoGuard(reg, roomId, clientId) ==
  IF roomId \notin DOMAIN reg
  THEN [rooms |-> reg, effs |-> << >>]
  ELSE
    LET present == Has(reg[roomId], clientId)
        ended == IF present /\ Get(reg[roomId], clientId).res # Null
                 THEN << End(Get(reg[roomId], clientId).res) >> ELSE << >>
        deleted == IF present THEN << Deleted(clientId) >> ELSE << >>
        left == Delete(reg[roomId], clientId)
    IN IF Len(left) = 0
       THEN [rooms |-> RoomsDelete(reg, roomId), effs |-> ended \o deleted]
       ELSE LET reg1 == RoomsSet(reg, roomId, left)
            IN [rooms |-> reg1,
                effs |-> ended \o deleted
                         \o Broadcast(reg1, roomId, clientId, "peer-left",
                                      [clientId |-> clientId])]

\* removeClient that tells the room before it deletes the entry, excluding
\* nobody
RemoveClientNotifiesFirst(reg, roomId, clientId) ==
  IF roomId \notin DOMAIN reg \/ ~Has(reg[roomId], clientId)
  THEN [rooms |-> reg, effs |-> << >>]
  ELSE
    LET client == Get(reg[roomId], clientId)
        told == Broadcast(reg, roomId, << >>, "peer-left", [clientId |-> clientId])
        ended == IF client.res # Null THEN << End(client.res) >> ELSE << >>
        left == Delete(reg[roomId], clientId)
    IN [rooms |-> IF Len(left) = 0 THEN RoomsDelete(reg, roomId)
                  ELSE RoomsSet(reg, roomId, left),
        effs |-> told \o ended \o << Deleted(clientId) >>]

\* removeClient
RemoveClient(reg, roomId, clientId) ==
  IF roomId \notin DOMAIN reg
  THEN [rooms |-> reg, effs |-> << >>]
  ELSE IF ~Has(reg[roomId], clientId)
  THEN [rooms |-> reg, effs |-> << >>]
  ELSE
    LET client == Get(reg[roomId], clientId)
        ended == IF client.res # Null THEN << End(client.res) >> ELSE << >>
        left == Delete(reg[roomId], clientId)
    IN IF Len(left) = 0
       THEN [rooms |-> RoomsDelete(reg, roomId),
             effs |-> ended \o << Deleted(clientId) >>]
       ELSE LET reg1 == RoomsSet(reg, roomId, left)
            IN [rooms |-> reg1,
                effs |-> ended \o << Deleted(clientId) >>
                         \o Broadcast(reg1, roomId, clientId, "peer-left",
                                      [clientId |-> clientId])]

\* handleLeave after `await parseBody(req)`
HandleLeaveResult(reg, body) ==
  IF body.t = "invalid"
  THEN [rooms |-> reg, effs |-> << Respond(400, ErrorBody("Invalid JSON body")) >>]
  ELSE IF ~Truthy(body.room) \/ ~Truthy(body.clientId)
  THEN [rooms |-> reg,
        effs |-> << Respond(400, ErrorBody("Missing room or clientId")) >>]
  ELSE LET r == RemoveClient(reg, String(body.room), String(body.clientId))
       IN [rooms |-> r.rooms, effs |-> r.effs \o << Respond(204, NoBody) >>]

\* handleEventStream that resolves the room with the creating getRoom
HandleEventStreamCreatesRoom(reg, s, room, clientId) ==
  IF ~Truthy(room) \/ ~Truthy(clientId)
  THEN [rooms |-> reg,
        effs |-> << Respond(400, TextBody("Missing room or clientId")) >>]
  ELSE
    LET roomId == String(room)
        reg1 == GetRoom(reg, roomId)
    IN IF ~Has(reg1[roomId], String(clientId))
       THEN [rooms |-> reg1,
             effs |-> << Respond(404, TextBody("Client not registered in room")) >>]
       ELSE
         LET client == Get(reg1[roomId], String(clientId))
         IN [rooms |-> RoomsSet(reg1, roomId,
                         Set(reg1[roomId], client.id, [name |-> client.name, res |-> s])),
             effs |-> << Respond(200, TextBody("text/event-stream")),
                         Write(s, [k |-> "nl"]) >>]

\* handleEventStream; s is the response object of this request
HandleEventStreamResult(reg, s, room, clientId) ==
  IF ~Truthy(room) \/ ~Truthy(clientId)
  THEN [rooms |-> reg,
        effs |-> << Respond(400, TextBody("Missing room or clientId")) >>]
  ELSE IF String(room) \notin DOMAIN reg
          \/ ~Has(reg[String(room)], String(clientId))
  THEN [rooms |-> reg,
        effs |-> << Respond(404, TextBody("Client not registered in room")) >>]
  ELSE
    LET roomId == String(room)
        client == Get(reg[roomId], String(clientId))
    IN [rooms |-> RoomsSet(reg, roomId,
                    Set(reg[roomId], client.id, [name |-> client.name, res |-> s])),
        effs |-> << Respond(200, TextBody("text/event-stream")),
                    Write(s, [k |-> "nl"]) >>]

\* a close callback that detaches the handle and keeps the entry
CloseHandlerDetaches(reg, roomId, clientId) ==
  IF roomId \notin DOMAIN reg
  THEN [rooms |-> reg, effs |-> << >>]
  ELSE IF ~Has(reg[roomId], clientId)
  THEN [rooms |-> reg, effs |-> << >>]
  ELSE
    LET entry == Get(reg[roomId], clientId)
    IN [rooms |-> RoomsSet(reg, roomId,
                    Set(reg[roomId], clientId, [name |-> entry.name, res |-> Null])),
        effs |-> << >>]

\* the close callback without its broadcast
CloseHandlerSilent(reg, roomId, clientId) ==
  IF roomId \notin DOMAIN reg
  THEN [rooms |-> reg, effs |-> << >>]
  ELSE IF ~Has(reg[roomId], clientId)
  THEN [rooms |-> reg, effs |-> << >>]
  ELSE
    LET left == Delete(reg[roomId], clientId)
    IN [rooms |-> IF Len(left) = 0 THEN RoomsDelete(reg, roomId)
                  ELSE RoomsSet(reg, roomId, left),
        effs |-> << Deleted(clientId) >>]

\* the close callback without `if (!entry) return`: delete() of an absent
\* id removes nothing, and the peers are told again
CloseHandlerNoGuard(reg, roomId, clientId) ==
  IF roomId \notin DOMAIN reg
  THEN [rooms |-> reg, effs |-> << >>]
  ELSE
    LET deleted == IF Has(reg[roomId], clientId)
                   THEN << Deleted(clientId) >> ELSE << >>
        left == Delete(reg[roomId], clientId)
    IN IF Len(left) = 0
       THEN [rooms |-> RoomsDelete(reg, roomId), effs |-> deleted]
       ELSE LET reg1 == RoomsSet(reg, roomId, left)
            IN [rooms |-> reg1,
                effs |-> deleted
                         \o Broadcast(reg1, roomId, clientId, "peer-left",
                                      [clientId |-> clientId])]

\* a close callback that clears the interval and does nothing else
CloseHandlerKeepsEntry(reg, roomId, clientId) ==
  [rooms |-> reg, effs |-> << >>]

\* the req.on('close') callback of a stream opened with (roomId, clientId),
\* after clearInterval
CloseHandler(reg, roomId, clientId) ==
  IF roomId \notin DOMAIN reg
  THEN [rooms |-> reg, effs |-> << >>]
  ELSE IF ~Has(reg[roomId], clientId)
  THEN [rooms |-> reg, effs |-> << >>]
  ELSE
    LET left == Delete(reg[roomId], clientId)
    IN IF Len(left) = 0
       THEN [rooms |-> RoomsDelete(reg, roomId), effs |-> << Deleted(clientId) >>]
       ELSE LET reg1 == RoomsSet(reg, roomId, left)
            IN [rooms |-> reg1,
                effs |-> << Deleted(clientId) >>
                         \o Broadcast(reg1, roomId, clientId, "peer-left",
                                      [clientId |-> clientId])]

(************************** state ****************************************)
VARIABLES
  rooms,     \* the registry: room id -> clients
  nextId,    \* number of the next id generateClientId returns
  streams,   \* the event-stream responses opened so far, by number
  pending,   \* handlers suspended in `await parseBody(req)`, by arrival
  trace,     \* the step just taken: what was handled, then its effects in order
  joinLog,   \* the 200 answers of Join, in order
  removed,   \* the client ids deleted from a clients Map, in order
  wire,      \* SpecWire: every res.write so far, in the order of the calls
  relayed,   \* SpecWire: the Signals answered 204 so far, in order
  call       \* SpecClient: one browser's state and its call of sendSignal

vars ==
  << rooms, nextId, streams, pending, trace, joinLog, removed, wire, relayed,
     call >>

Init ==
  /\ rooms = NoRooms
  /\ nextId = 1
  /\ streams = << >>
  /\ pending = << >>
  /\ trace = << >>
  /\ joinLog = << >>
  /\ removed = << >>
  /\ wire = << >>
  /\ relayed = << >>
  /\ call = [phase |-> "idle", ready |-> FALSE, attempt |-> 0, sent |-> 0,
             delays |-> << >>, statuses |-> << >>]

Indices(effs, kind) == { i \in 1..Len(effs) : effs[i].e = kind }
EndedBy(effs) == { effs[i].s : i \in Indices(effs, "end") }
DeletedBy(effs) ==
  LET ds == SelectSeq(effs, LAMBDA x : x.e = "delete")
  IN [i \in 1..Len(ds) |-> ds[i].id]
Answers(effs) == SelectSeq(effs, LAMBDA x : x.e = "respond")

\* the streams after a handler's effects: res.end() marks a stream ended
StreamsAfter(strs, effs) ==
  [s \in 1..Len(strs) |->
     IF s \in EndedBy(effs) THEN [strs[s] EXCEPT !.ended = TRUE] ELSE strs[s]]

Without(seq, i) == SubSeq(seq, 1, i - 1) \o SubSeq(seq, i + 1, Len(seq))

(************************** the handlers as steps ************************)
\* the registry after a handleSignal that resolved the room with getRoom
HandleSignalGetRoom(reg, body) ==
  IF body.t = "invalid" THEN reg
  ELSE IF ~Truthy(body.room) \/ ~Truthy(body.from)
          \/ ~Truthy(body.target) \/ ~Truthy(body.data)
  THEN reg
  ELSE GetRoom(reg, String(body.room))

\* the registry after handleSignal: it reads `rooms.get(String(room))` and
\* `roomData.clients.get(String(target))` and assigns nothing
HandleSignalRegistry(reg, body) == reg

\* handleJoin from the arrival of its body; `since` is the number of Joins
\* that had been answered 200 when the request arrived, `goneThen` the
\* number of sessions that had been deleted.
JoinRun(body, since, goneThen) ==
  LET r == HandleJoinResult(rooms, nextId, body)
      ok == Answers(r.effs)[1].status = 200
  IN /\ ok => nextId <= MaxClients
     /\ rooms' = r.rooms
     /\ nextId' = IF ok THEN nextId + 1 ELSE nextId
     /\ joinLog' = IF ok
                   THEN Append(joinLog,
                          [body |-> body, answer |-> Answers(r.effs)[1].body,
                           created |-> GetRoom(rooms, RoomIdOf(body.room)) # rooms,
                           gone |-> Len(removed),
                           overlap |-> Len(joinLog) - since,
                           raced |-> Len(removed) - goneThen])
                   ELSE joinLog
     /\ streams' = StreamsAfter(streams, r.effs)
     /\ trace' = << Request("join") >> \o r.effs
     /\ UNCHANGED removed

\* handleSignal from the arrival of its body
SignalRun(body) ==
  LET effs == HandleSignalResult(rooms, body)
  IN /\ streams' = StreamsAfter(streams, effs)
     /\ trace' = << Request("signal") >> \o effs
     /\ rooms' = HandleSignalRegistry(rooms, body)
     /\ UNCHANGED << nextId, joinLog, removed >>

\* handleLeave from the arrival of its body
LeaveRun(body) ==
  LET r == HandleLeaveResult(rooms, body)
  IN /\ rooms' = r.rooms
     /\ removed' = removed \o DeletedBy(r.effs)
     /\ streams' = StreamsAfter(streams, r.effs)
     /\ trace' = << Request("leave") >> \o r.effs
     /\ UNCHANGED << nextId, joinLog >>

(************************** actions **************************************)
\* Spec and SpecAsync keep no record of the writes across steps, and no
\* browser runs in them
Unlogged == UNCHANGED << wire, relayed, call >>

Join(body) ==
  JoinRun(body, Len(joinLog), Len(removed)) /\ UNCHANGED pending /\ Unlogged

Signal(body) == SignalRun(body) /\ UNCHANGED pending /\ Unlogged

Leave(body) == LeaveRun(body) /\ UNCHANGED pending /\ Unlogged

\* GET /events?room=..&clientId=..: handleEventStream runs to its end.
\* On success the response stays open as stream number Len(streams) + 1,
\* with its heartbeat interval and its close listener installed.
OpenStreamRun(room, clientId) ==
  LET s == Len(streams) + 1
      r == HandleEventStreamResult(rooms, s, room, clientId)
      ok == Answers(r.effs)[1].status = 200
  IN /\ ok => s <= MaxStreams
     /\ rooms' = r.rooms
     /\ streams' = IF ok
                   THEN Append(streams,
                          [room |-> String(room), clientId |-> String(clientId),
                           ended |-> FALSE, closed |-> FALSE, heartbeat |-> TRUE])
                   ELSE streams
     /\ trace' = << Request("open") >> \o r.effs
     /\ UNCHANGED << nextId, pending, joinLog, removed >>

OpenStream(room, clientId) == OpenStreamRun(room, clientId) /\ Unlogged

\* The 'close' event of stream s's request fires (the peer went away, or
\* the connection closed after the server ended the response).
StreamClose(s) ==
  /\ s \in 1..Len(streams)
  /\ ~streams[s].closed
  /\ LET r == CloseHandler(rooms, streams[s].room, streams[s].clientId)
     IN /\ rooms' = r.rooms
        /\ removed' = removed \o DeletedBy(r.effs)
        /\ streams' = [StreamsAfter(streams, r.effs) EXCEPT
                         ![s].closed = TRUE, ![s].heartbeat = FALSE]
        /\ trace' = << Request("close") >> \o r.effs
  /\ UNCHANGED << nextId, pending, joinLog >>
  /\ Unlogged

\* The heartbeat interval of stream s fires: res.write(': ping\n\n')
HeartbeatRun(s) ==
  /\ s \in 1..Len(streams)
  /\ streams[s].heartbeat
  /\ trace' = << Request("tick"), Write(s, [k |-> "ping"]) >>
  /\ UNCHANGED << rooms, nextId, streams, pending, joinLog, removed >>

Heartbeat(s) == HeartbeatRun(s) /\ Unlogged

Next ==
  \/ \E body \in JoinBodies : Join(body)
  \/ \E body \in SignalBodies : Signal(body)
  \/ \E body \in LeaveBodies : Leave(body)
  \/ \E q \in StreamParams : OpenStream(q[1], q[2])
  \/ \E s \in 1..MaxStreams : StreamClose(s)
  \/ \E s \in 1..MaxStreams : Heartbeat(s)

Spec == Init /\ [][Next]_vars

(************************** suspended handlers ***************************)
\* A request arrives; the async handler runs up to `await parseBody(req)`.
Receive(kind) ==
  /\ Len(pending) < MaxInFlight
  /\ pending' = Append(pending,
                 [kind |-> kind,
                  since |-> IF kind = "join" THEN Len(joinLog) ELSE 0,
                  goneThen |-> IF kind = "join" THEN Len(removed) ELSE 0])
  /\ trace' = << Request("receive") >>
  /\ UNCHANGED << rooms, nextId, streams, joinLog, removed >>
  /\ Unlogged

ResumeJoin(i, body) ==
  /\ i \in 1..Len(pending)
  /\ pending[i].kind = "join"
  /\ JoinRun(body, pending[i].since, pending[i].goneThen)
  /\ pending' = Without(pending, i)
  /\ Unlogged

ResumeLeave(i, body) ==
  /\ i \in 1..Len(pending)
  /\ pending[i].kind = "leave"
  /\ LeaveRun(body)
  /\ pending' = Without(pending, i)
  /\ Unlogged

\* Joins, Leaves and stream closes in every interleaving of their steps
NextAsync ==
  \/ \E kind \in {"join", "leave"} : Receive(kind)
  \/ \E i \in 1..MaxInFlight, body \in AsyncJoinBodies : ResumeJoin(i, body)
  \/ \E i \in 1..MaxInFlight, body \in LeaveBodies : ResumeLeave(i, body)
  \/ \E q \in StreamParams : OpenStream(q[1], q[2])
  \/ \E s \in 1..MaxStreams : StreamClose(s)

SpecAsync == Init /\ [][NextAsync]_vars

(************************** the writes across steps **********************)
\* SpecWire records every res.write in the order of the calls, over
\* Joins, Open-streams, Signals and heartbeats, up to MaxWire writes.
Answer == Obj("answer")
WireJoinBodies == { JoinBody(PaddedRoomA, NameA) }
WireSignalBodies ==
  { SignalBody(RoomA, Str(IdOf(f)), Str(IdOf(3 - f)), d) :
      f \in 1..2, d \in { Offer, Answer } }

\* writes that reach the stream ahead of the ones made before them
EmitFirst(w, effs) == SelectSeq(effs, LAMBDA x : x.e = "write") \o w

\* a response takes the writes in the order of the calls
Emit(w, effs) == w \o SelectSeq(effs, LAMBDA x : x.e = "write")

Logged ==
  /\ wire' = Emit(wire, trace')
  /\ Len(wire') <= MaxWire

JoinWire(body) ==
  /\ JoinRun(body, Len(joinLog), Len(removed))
  /\ Logged
  /\ UNCHANGED << pending, relayed, call >>

OpenStreamWire(room, clientId) ==
  /\ OpenStreamRun(room, clientId)
  /\ Logged
  /\ UNCHANGED << relayed, call >>

\* a Signal answered 204 is recorded with the handle its target had
SignalWire(body) ==
  /\ SignalRun(body)
  /\ Logged
  /\ relayed' =
       IF Answers(trace')[1].status = 204
       THEN Append(relayed,
              [from |-> body.from, target |-> String(body.target),
               data |-> body.data,
               s |-> Get(rooms[String(body.room)], String(body.target)).res])
       ELSE relayed
  /\ UNCHANGED << pending, call >>

HeartbeatWire(s) ==
  /\ HeartbeatRun(s)
  /\ Logged
  /\ UNCHANGED << relayed, call >>

NextWire ==
  \/ \E body \in WireJoinBodies : JoinWire(body)
  \/ \E c \in KnownIds : OpenStreamWire(RoomA, c)
  \/ \E body \in WireSignalBodies : SignalWire(body)
  \/ \E s \in 1..MaxStreams : HeartbeatWire(s)

SpecWire == Init /\ [][NextWire]_vars

(************************** the browser **********************************)
\* public/app.js: sendSignal(target, data, attempt = 0), called once by
\* the browser of the first client that joined, against the server above.
SIGNAL_RETRY_LIMIT == 5
SIGNAL_RETRY_DELAY_MS == 250

\* response.ok
Ok(status) == status >= 200 /\ status <= 299

\* `response.status === 409 && attempt < SIGNAL_RETRY_LIMIT`
ShouldRetryPastLimit(status, attempt) ==
  status = 409 /\ attempt <= SIGNAL_RETRY_LIMIT

ShouldRetry(status, attempt) ==
  status = 409 /\ attempt < SIGNAL_RETRY_LIMIT

\* the body sendSignal posts: room and from out of the browser's state,
\* which it took from the answer to its Join
ClientSignalBody ==
  SignalBody(Str(joinLog[1].answer.room), Str(joinLog[1].answer.clientId),
             Str(IdOf(2)), Offer)

\* the entry of sendSignal: it returns when the browser's state holds no
\* room or clientId, else it issues the request
Entered(c, attempt) ==
  IF ~c.ready
  THEN [c EXCEPT !.phase = "returned", !.attempt = attempt]
  ELSE [c EXCEPT !.phase = "fetch", !.attempt = attempt, !.sent = c.sent + 1]

\* the browser stores roomId and clientId out of the answer to its Join
ClientJoined ==
  /\ call.phase = "idle"
  /\ ~call.ready
  /\ Len(joinLog) >= 1
  /\ call' = [call EXCEPT !.ready = TRUE]
  /\ trace' = << Request("browser") >>
  /\ UNCHANGED << rooms, nextId, streams, pending, joinLog, removed, wire, relayed >>

\* the browser leaves the room: its state is cleared, whatever a call of
\* sendSignal is waiting for
ClientReset ==
  /\ call.ready
  /\ call' = [call EXCEPT !.ready = FALSE]
  /\ trace' = << Request("browser") >>
  /\ UNCHANGED << rooms, nextId, streams, pending, joinLog, removed, wire, relayed >>

\* sendSignal(target, data)
CallSendSignal ==
  /\ call.phase = "idle"
  /\ Len(joinLog) >= 1
  /\ call' = Entered(call, 0)
  /\ trace' = << Request("browser") >>
  /\ UNCHANGED << rooms, nextId, streams, pending, joinLog, removed, wire, relayed >>

\* the server handles the request and sendSignal resumes with its answer
FetchAnswered ==
  /\ call.phase = "fetch"
  /\ SignalRun(ClientSignalBody)
  /\ LET status == Answers(trace')[1].status
         seen == [call EXCEPT !.statuses = Append(call.statuses, status)]
     IN call' =
          IF Ok(status) THEN [seen EXCEPT !.phase = "returned"]
          ELSE IF ShouldRetry(status, call.attempt)
          THEN [seen EXCEPT !.phase = "delay",
                            !.delays = Append(call.delays,
                                         SIGNAL_RETRY_DELAY_MS * (call.attempt + 1))]
          ELSE [seen EXCEPT !.phase = "thrown"]
  /\ UNCHANGED << pending, wire, relayed >>

\* the delay is over: sendSignal(target, data, attempt + 1)
DelayElapsed ==
  /\ call.phase = "delay"
  /\ call' = Entered(call, call.attempt + 1)
  /\ trace' = << Request("browser") >>
  /\ UNCHANGED << rooms, nextId, streams, pending, joinLog, removed, wire, relayed >>

\* the server's other requests, with the browser as it is
Meanwhile(A) == A /\ UNCHANGED << pending, wire, relayed, call >>

NextClient ==
  \/ \E body \in WireJoinBodies :
       Meanwhile(JoinRun(body, Len(joinLog), Len(removed)))
  \/ \E c \in KnownIds : OpenStream(RoomA, c)
  \/ \E c \in KnownIds : Meanwhile(LeaveRun(LeaveBody(RoomA, c)))
  \/ ClientJoined
  \/ ClientReset
  \/ CallSendSignal
  \/ FetchAnswered
  \/ DelayElapsed

\* the server answers every request and every timer of the browser fires
SpecClient ==
  /\ Init
  /\ [][NextClient]_vars
  /\ WF_vars(FetchAnswered)
  /\ WF_vars(DelayElapsed)

(************************** api/join.js **********************************)
\* What a Join request carries: nothing, a JSON text, or a text that is
\* not JSON.
NoPayload == [t |-> "empty"]
Garbage == [t |-> "text", json |-> FALSE]
JsonText(v) == [t |-> "text", json |-> TRUE, value |-> v]
EmptyObject == JoinBody(Undefined, Undefined)
Payloads ==
  { JsonText(b) : b \in { c \in JoinBodies : c.t = "body" } }
  \cup { JsonText(EmptyObject), NoPayload, Garbage }

\* parseBody: no chunk resolves {}, a JSON text resolves its value, any
\* other text rejects
ParseBody(payload) ==
  IF payload.t = "empty" THEN EmptyObject
  ELSE IF payload.json THEN payload.value
  ELSE BadJson

\* req.body as the platform hands it to api/join.js: nothing, the text
\* itself, or the object parsed out of a JSON text
ReqBodies(payload) ==
  IF payload.t = "empty" THEN { [t |-> "undefined"] }
  ELSE IF payload.json THEN { payload, payload.value }
  ELSE { payload }

\* normalizeBody
NormalizeBody(body) ==
  IF body.t = "undefined" THEN EmptyObject
  ELSE IF body.t = "text"
  THEN IF body.json THEN body.value ELSE EmptyObject
  ELSE body

\* the handler of api/join.js without the slice of the name
HandlerKeepsLongName(reg, n, method, reqBody) ==
  IF method # "POST"
  THEN [rooms |-> reg, effs |-> << Respond(405, NoBody) >>]
  ELSE
    LET body == NormalizeBody(reqBody)
        roomId == RoomIdOf(body.room)
        userName == IF Truthy(body.name) THEN Trim(String(body.name)) ELSE << >>
    IN IF roomId = << >> \/ userName = << >>
       THEN [rooms |-> reg,
             effs |-> << Respond(400, ErrorBody("Missing room or name")) >>]
       ELSE
         LET reg1 == GetRoom(reg, roomId)
             existingPeers == PeersOf(reg1[roomId])
             clientId == IdOf(n)
             reg2 == RoomsSet(reg1, roomId,
                       Set(reg1[roomId], clientId, [name |-> userName, res |-> Null]))
         IN [rooms |-> reg2,
             effs |-> << Respond(200, [clientId |-> clientId, room |-> roomId,
                                        peers |-> existingPeers]) >>
                      \o Broadcast(reg2, roomId, clientId, "peer-joined",
                                   [clientId |-> clientId, name |-> userName])]

\* the handler of api/join.js; n is the generator's counter
Handler(reg, n, method, reqBody) ==
  IF method # "POST"
  THEN [rooms |-> reg, effs |-> << Respond(405, NoBody) >>]
  ELSE
    LET body == NormalizeBody(reqBody)
        roomId == RoomIdOf(body.room)
        userName == UserNameOf(body.name)
    IN IF roomId = << >> \/ userName = << >>
       THEN [rooms |-> reg,
             effs |-> << Respond(400, ErrorBody("Missing room or name")) >>]
       ELSE
         LET reg1 == GetRoom(reg, roomId)
             existingPeers == PeersOf(reg1[roomId])
             clientId == IdOf(n)
             reg2 == RoomsSet(reg1, roomId,
                       Set(reg1[roomId], clientId, [name |-> userName, res |-> Null]))
         IN [rooms |-> reg2,
             effs |-> << Respond(200, [clientId |-> clientId, room |-> roomId,
                                        peers |-> existingPeers]) >>
                      \o Broadcast(reg2, roomId, clientId, "peer-joined",
                                   [clientId |-> clientId, name |-> userName])]

\* a request handled by api/join.js
ApiJoin(method, reqBody) ==
  LET r == Handler(rooms, nextId, method, reqBody)
      ok == Answers(r.effs)[1].status = 200
  IN /\ ok => nextId <= MaxClients
     /\ rooms' = r.rooms
     /\ nextId' = IF ok THEN nextId + 1 ELSE nextId
     /\ streams' = StreamsAfter(streams, r.effs)
     /\ trace' = << Request("api/join") >> \o r.effs
     /\ UNCHANGED << joinLog, removed, pending >>
     /\ Unlogged

\* api/join.js over the registry of lib/rooms.js, next to the requests
\* that attach streams to its sessions and remove them
NextApi ==
  \/ \E method \in { "POST", "GET" } : \E payload \in Payloads :
       \E reqBody \in ReqBodies(payload) : ApiJoin(method, reqBody)
  \/ \E q \in StreamParams : OpenStream(q[1], q[2])
  \/ \E body \in LeaveBodies : Leave(body)
  \/ \E s \in 1..MaxStreams : StreamClose(s)

SpecApi == Init /\ [][NextApi]_vars

(************************** reading the state ****************************)
\* the step just taken handled a request or event of kind op
Handled(op) == Len(trace) > 0 /\ trace[1] = Request(op)
Stepped(op) == Len(trace') > 0 /\ trace'[1] = Request(op)

\* the status the step just taken answered (0: it answered nothing)
Status(effs) == IF Answers(effs) = << >> THEN 0 ELSE Answers(effs)[1].status

\* positions in the trace of the data line of the event frames of kind ev
FramesOf(effs, ev) ==
  { i \in Indices(effs, "write") : effs[i].w.k = "data" /\ effs[i].w.ev = ev }
MemberFrames(effs) == FramesOf(effs, "peer-joined") \cup FramesOf(effs, "peer-left")

Times(seq, x) == Cardinality({ k \in 1..Len(seq) : seq[k] = x })

JoinedId(i) == joinLog[i].answer.clientId
JoinedRoom(i) == joinLog[i].answer.room
JoinedName(i) == UserNameOf(joinLog[i].body.name)
JoinOf(id) == CHOOSE i \in 1..Len(joinLog) : JoinedId(i) = id

\* the sessions some room's table holds
InTable(roomId, id) == roomId \in DOMAIN rooms /\ Has(rooms[roomId], id)
AttachedHandles ==
  UNION { { rooms[r][k].res : k \in 1..Len(rooms[r]) } : r \in DOMAIN rooms }
    \ { Null }

(************************** C1 *******************************************)
\* the joins whose session no handler has deleted
Live == { i \in 1..Len(joinLog) : Times(removed, JoinedId(i)) = 0 }

\* C1: between any two handler steps, a room id is in the registry exactly
\* when its table holds a session: no room of the registry is empty, and
\* every session that joined and was not torn down is in the table of its
\* room, which is in the registry.
C1_RoomIffSessions ==
  /\ \A r \in DOMAIN rooms : Len(rooms[r]) >= 1
  /\ \A i \in Live : InTable(JoinedRoom(i), JoinedId(i))

\* a room was deleted with its last session while another room holds one
C1_Witness ==
  /\ rooms # NoRooms
  /\ \E i \in 1..Len(joinLog) : JoinedRoom(i) \notin DOMAIN rooms

(************************** C2 *******************************************)
\* the removals numbered a+1..b that took a session out of room r
RemovedFrom(r, a, b) ==
  { k \in (a + 1)..b : JoinedRoom(JoinOf(removed[k])) = r }

\* Join i created room r, Join j >= i went into r, and no session left r
\* from Join i to Join j
FreshRun(i, j) ==
  /\ i <= j
  /\ JoinedRoom(i) = JoinedRoom(j)
  /\ joinLog[i].created
  /\ RemovedFrom(JoinedRoom(i), joinLog[i].gone, joinLog[j].gone) = {}

\* the peers Join j is owed when the room was created by Join i
EarlierJoiners(i, j) ==
  LET in == SelectSeq([k \in 1..(j - i) |-> i + k - 1],
                      LAMBDA k : JoinedRoom(k) = JoinedRoom(j))
  IN [k \in 1..Len(in) |-> [clientId |-> JoinedId(in[k]), name |-> JoinedName(in[k])]]

\* C2: in a run of Joins into a room that did not exist before, with no
\* removal in between, the peers answered to the Nth joiner are exactly the
\* N-1 earlier joiners, each with the name of its Join (trimmed and cut to
\* 64 characters, as the table stores it), and not the joiner itself.
C2_PeersAreEarlierJoiners ==
  \A i \in 1..Len(joinLog), j \in 1..Len(joinLog) :
    FreshRun(i, j) =>
      /\ joinLog[j].answer.peers = EarlierJoiners(i, j)
      /\ \A k \in 1..Len(joinLog[j].answer.peers) :
           joinLog[j].answer.peers[k].clientId # JoinedId(j)

\* a second joiner was answered the first one, whose name differs from its own
C2_Witness ==
  \E i \in 1..Len(joinLog), j \in 1..Len(joinLog) :
    /\ i < j
    /\ FreshRun(i, j)
    /\ Len(joinLog[j].answer.peers) >= 1
    /\ JoinedName(i) # JoinedName(j)

(************************** C3 *******************************************)
\* the streams the peer-left frames of the last step naming id were written to
LeftFrames(id) ==
  { i \in FramesOf(trace, "peer-left") : trace[i].w.p.clientId = id }

\* C3: whatever Leaves and stream closes fire for a client, its session is
\* deleted from the table once: no id is deleted twice, a deleted id is in
\* no table, and peer-left frames naming it are written only by the step
\* that deletes it, at most one to each remaining peer.
C3_RemovedOnce ==
  /\ \A k \in 1..Len(removed) :
       /\ Times(removed, removed[k]) = 1
       /\ \A r \in DOMAIN rooms : ~Has(rooms[r], removed[k])
  /\ \A i \in FramesOf(trace, "peer-left") :
       LET id == trace[i].w.p.clientId
       IN /\ Times(DeletedBy(trace), id) = 1
          /\ \A j \in LeftFrames(id) :
               j # i => streams[trace[j].s].clientId # streams[trace[i].s].clientId

\* a Leave ended a client's stream and that stream's close event was
\* handled too: both teardown triggers fired for one client
C3_Witness ==
  \E s \in 1..Len(streams) :
    /\ streams[s].ended
    /\ streams[s].closed
    /\ Times(removed, streams[s].clientId) = 1

(************************** C4 *******************************************)
\* C4: a peer-joined or peer-left frame about client X is never written to
\* a stream opened for X, and is written only to a stream that is the
\* handle of a session when the broadcast runs; attaching a stream writes
\* the opening newline and no event, so nothing broadcast earlier reaches
\* a client that attaches later.
C4_NotToSubjectNorUnattached ==
  /\ \A i \in MemberFrames(trace) :
       /\ streams[trace[i].s].clientId # trace[i].w.p.clientId
       /\ trace[i].s \in AttachedHandles
  /\ Handled("open") =>
       \A i \in Indices(trace, "write") : trace[i].w = [k |-> "nl"]

\* a client with a stream of its own was removed and a peer was told
C4_Witness ==
  \E i \in FramesOf(trace, "peer-left") :
    \E s \in 1..Len(streams) : streams[s].clientId = trace[i].w.p.clientId

(************************** C5 *******************************************)
\* a Signal body with its four fields present
Complete(body) ==
  /\ body.t = "body"
  /\ Truthy(body.room) /\ Truthy(body.from)
  /\ Truthy(body.target) /\ Truthy(body.data)

\* the target of a complete Signal body is a session of its room
TargetInTable(body) == InTable(String(body.room), String(body.target))
TargetHandle(body) == Get(rooms[String(body.room)], String(body.target)).res

C5_Step ==
  Stepped("signal") =>
    \A body \in SignalBodies :
      (Signal(body) /\ Complete(body) /\ TargetInTable(body)
         /\ TargetHandle(body) # Null) =>
        /\ trace' = << Request("signal") >>
                    \o SendEvent(TargetHandle(body), "signal",
                                 [from |-> body.from, data |-> body.data])
                    \o << Respond(204, NoBody) >>
        /\ UNCHANGED << rooms, streams >>

\* C5: a Signal with all four fields, whose room exists and whose target
\* is a session of that room with a stream attached, writes one signal
\* frame carrying the body's from and data to the target's stream, writes
\* nothing to another stream, and answers 204.
C5_SignalDelivered == [][C5_Step]_vars

\* a Signal was delivered while two sessions had a stream attached
C5_Witness ==
  /\ Handled("signal")
  /\ Status(trace) = 204
  /\ FramesOf(trace, "signal") # {}
  /\ Cardinality(AttachedHandles) = 2

(************************** C6 *******************************************)
Unavailable == << Request("signal"), Respond(409, ErrorBody("Recipient unavailable")) >>

C6_Step ==
  /\ Stepped("signal") =>
       \A body \in SignalBodies :
         (Signal(body) /\ Complete(body) /\ TargetInTable(body)
            /\ TargetHandle(body) = Null) =>
           /\ trace' = Unavailable
           /\ UNCHANGED << rooms, streams >>
  /\ FramesOf(trace', "signal") # {} =>
       Stepped("signal") /\ Status(trace') = 204

\* C6: a Signal whose target is a session of the room with no stream
\* attached answers 409 "Recipient unavailable", writes to no stream and
\* changes nothing; a signal frame is written only by the Signal step that
\* answers 204, so no later step (the target attaching, for one) delivers
\* the refused payload.
C6_NullHandleRefused == [][C6_Step]_vars

\* room a holds c1 and c2, neither with a stream, and is the only room:
\* the 409 just answered was for a target present without a stream
C6_Witness ==
  /\ trace = Unavailable
  /\ DOMAIN rooms = { String(RoomA) }
  /\ Ids(rooms[String(RoomA)]) = { IdOf(1), IdOf(2) }
  /\ AttachedHandles = {}

(************************** C7 *******************************************)
C7_OriginalStep ==
  Stepped("signal") =>
    \A body \in SignalBodies :
      (Signal(body) /\ Complete(body) /\ String(body.room) \in DOMAIN rooms
         /\ ~TargetInTable(body)) =>
        Status(trace') = 404

C7_Step ==
  Stepped("signal") =>
    \A body \in SignalBodies :
      (Signal(body) /\ Complete(body)) =>
        /\ (String(body.room) \in DOMAIN rooms /\ ~TargetInTable(body)) =>
             /\ trace' = Unavailable
             /\ UNCHANGED << rooms, streams >>
        /\ Status(trace') = 404 => String(body.room) \notin DOMAIN rooms

PeerIds(i) ==
  { joinLog[i].answer.peers[k].clientId : k \in 1..Len(joinLog[i].answer.peers) }

\* C8: of two Joins into a room that was not in the registry, handled in
\* any interleaving of their suspensions with no removal from the room in
\* between, the first to run creates the room and the second finds it:
\* the second is answered the first in its peers, the first was not
\* answered the second, and while nothing is removed from the room both
\* sessions are in the table under that room id.
C8_OneRoomForConcurrentJoins ==
  \A i \in 1..Len(joinLog), j \in 1..Len(joinLog) :
    (i < j /\ FreshRun(i, j)) =>
      /\ ~joinLog[j].created
      /\ JoinedId(i) \in PeerIds(j)
      /\ JoinedId(j) \notin PeerIds(i)
      /\ RemovedFrom(JoinedRoom(i), joinLog[i].gone, Len(removed)) = {} =>
           /\ InTable(JoinedRoom(i), JoinedId(i))
           /\ InTable(JoinedRoom(i), JoinedId(j))

\* the second Join was suspended on its body while the first one ran
C8_Witness ==
  \E j \in 2..Len(joinLog) :
    /\ FreshRun(j - 1, j)
    /\ joinLog[j].overlap >= 1
    /\ Ids(rooms[JoinedRoom(j)]) = { JoinedId(j - 1), JoinedId(j) }

(************************** C9 *******************************************)
\* C9: a peer-joined frame is written only by a Join that answers 200,
\* after the response that carries the clientId the frame names; a Join
\* that answers 400 writes to no stream.
C9_ResponseBeforeBroadcast ==
  /\ \A i \in FramesOf(trace, "peer-joined") :
       /\ Handled("join")
       /\ Status(trace) = 200
       /\ \E k \in Indices(trace, "respond") :
            k < i /\ trace[k].body.clientId = trace[i].w.p.clientId
  /\ Handled("join") =>
       \A i \in Indices(trace, "write"), k \in Indices(trace, "respond") :
         k < i /\ trace[k].status = 200

\* a Join was answered 200 and a peer with a stream was told of it
C9_Witness ==
  /\ Handled("join")
  /\ Status(trace) = 200
  /\ FramesOf(trace, "peer-joined") # {}

(************************** C10 ******************************************)
Registered(room, clientId) == InTable(String(room), String(clientId))

C10_Step ==
  Stepped("open") =>
    \A q \in StreamParams :
      (OpenStream(q[1], q[2]) /\ Truthy(q[1]) /\ Truthy(q[2])) =>
        IF Registered(q[1], q[2])
        THEN LET s == Len(streams) + 1
                 roomId == String(q[1])
             IN /\ trace' = << Request("open"),
                               Respond(200, TextBody("text/event-stream")),
                               Write(s, [k |-> "nl"]) >>
                /\ streams' = Append(streams,
                                [room |-> roomId, clientId |-> String(q[2]),
                                 ended |-> FALSE, closed |-> FALSE,
                                 heartbeat |-> TRUE])
                /\ DOMAIN rooms' = DOMAIN rooms
                /\ \A r \in DOMAIN rooms \ { roomId } : rooms'[r] = rooms[r]
                /\ Len(rooms'[roomId]) = Len(rooms[roomId])
                /\ \A k \in 1..Len(rooms[roomId]) :
                     rooms'[roomId][k] =
                       IF rooms[roomId][k].id = String(q[2])
                       THEN [rooms[roomId][k] EXCEPT !.res = s]
                       ELSE rooms[roomId][k]
        ELSE /\ trace' = << Request("open"),
                            Respond(404, TextBody("Client not registered in room")) >>
             /\ UNCHANGED << rooms, streams >>

\* C10: an Open-stream naming a room and a clientId answers 200, makes the
\* new response the handle of that session and starts its heartbeat when
\* the room is in the registry and the clientId in its table, writing the
\* opening newline to the new stream and nothing to another; otherwise it
\* answers 404, attaches nothing, starts no heartbeat and leaves the
\* registry as it was.
C10_OpenStreamIffRegistered == [][C10_Step]_vars

\* a stream was attached in a room where a peer had a stream already
C10_Witness ==
  /\ Handled("open")
  /\ Status(trace) = 200
  /\ Cardinality(AttachedHandles) = 2

\* an Open-stream for a client that is in no table was answered 404
\* while a room held a session
C10_Refused ==
  /\ Handled("open")
  /\ Status(trace) = 404
  /\ rooms # NoRooms

(************************** C11 ******************************************)
\* the client ids whose session a Leave or a stream close has deleted
Gone == { removed[k] : k \in 1..Len(removed) }

NoContent(op) == << Request(op), Respond(204, NoBody) >>
NotRegistered ==
  << Request("open"), Respond(404, TextBody("Client not registered in room")) >>

C11_Step ==
  /\ Stepped("leave") =>
       \A body \in LeaveBodies :
         (Leave(body) /\ body.t = "body" /\ Truthy(body.room)
            /\ Truthy(body.clientId) /\ String(body.clientId) \in Gone) =>
           /\ trace' = NoContent("leave")
           /\ UNCHANGED << rooms, streams, removed >>
  /\ Stepped("open") =>
       \A q \in StreamParams :
         (OpenStream(q[1], q[2]) /\ Truthy(q[1]) /\ Truthy(q[2])
            /\ String(q[2]) \in Gone) =>
           /\ trace' = NotRegistered
           /\ UNCHANGED << rooms, streams, removed >>
  /\ Stepped("close") =>
       \A s \in 1..Len(streams) :
         (StreamClose(s) /\ streams[s].clientId \in Gone) =>
           /\ trace' = << Request("close") >>
           /\ UNCHANGED << rooms, removed >>
  /\ Stepped("signal") =>
       \A body \in SignalBodies :
         (Signal(body) /\ Complete(body) /\ String(body.target) \in Gone) =>
           /\ Indices(trace', "write") = {}
           /\ Status(trace') \in { 404, 409 }
           /\ UNCHANGED << rooms, streams, removed >>
  /\ \A k \in 1..Len(removed') :
       \A r \in DOMAIN rooms' : ~Has(rooms'[r], removed'[k])

\* C11: once a client's session has been deleted, a Leave naming it
\* answers 204, an Open-stream naming it answers 404, a close event of a
\* stream opened for it and a Signal with it as target do nothing to the
\* registry; none of them writes to a stream or deletes anything, and the
\* id is in no table after any step.
C11_GoneIsAbsorbing == [][C11_Step]_vars

\* the close event of a stream whose client was already deleted was
\* handled while a peer had a stream attached
C11_Witness ==
  /\ trace = << Request("close") >>
  /\ AttachedHandles # {}

(************************** C12 ******************************************)
\* the positions in effs of the writes to stream s
WritesTo(effs, s) == { i \in Indices(effs, "write") : effs[i].s = s }

\* stream s is written one frame of kind ev carrying payload, and no more
OneFrame(effs, s, ev, payload) ==
  /\ Cardinality(WritesTo(effs, s)) = 2
  /\ { effs[i].w : i \in WritesTo(effs, s) } =
       { [k |-> "event", ev |-> ev], [k |-> "data", ev |-> ev, p |-> payload] }

C12_Step ==
  (Stepped("join") /\ Status(trace') = 200) =>
    LET a == Answers(trace')[1].body
        name == UserNameOf(joinLog'[Len(joinLog')].body.name)
    IN a.room \in DOMAIN rooms =>
         \A k \in 1..Len(rooms[a.room]) :
           rooms[a.room][k].res # Null =>
             OneFrame(trace', rooms[a.room][k].res, "peer-joined",
                      [clientId |-> a.clientId, name |-> name])

\* C12: a Join that answers 200 writes, to the stream of every session
\* that was in the room before it with a stream attached, one peer-joined
\* frame carrying the new clientId and the name as stored, and nothing
\* else to that stream.
C12_PeerJoinedToEveryAttached == [][C12_Step]_vars

\* a peer with a stream was told of a joiner whose name was cut to 64
C12_Witness ==
  /\ Handled("join")
  /\ \E i \in FramesOf(trace, "peer-joined") :
       /\ Len(trace[i].w.p.name) = NameLimit
       /\ trace[i].s \in AttachedHandles

(************************** C13 ******************************************)
\* the room whose table holds id
RoomOf(id) == CHOOSE r \in DOMAIN rooms : Has(rooms[r], id)

C13_Step ==
  DeletedBy(trace') # << >> =>
    LET id == DeletedBy(trace')[1]
        r == RoomOf(id)
        remaining == Delete(rooms[r], id)
        handles == { remaining[k].res : k \in 1..Len(remaining) } \ { Null }
    IN /\ Stepped("leave") \/ Stepped("close")
       /\ IF remaining = << >>
          THEN /\ r \notin DOMAIN rooms'
               /\ Indices(trace', "write") = {}
          ELSE /\ r \in DOMAIN rooms'
               /\ rooms'[r] = remaining
               /\ \A s \in handles :
                    OneFrame(trace', s, "peer-left", [clientId |-> id])
               /\ \A i \in Indices(trace', "write") : trace'[i].s \in handles

\* C13: a step that deletes a session, be it a Leave or the close event
\* of a stream, writes one peer-left frame with the deleted clientId to
\* the stream of every session left in the room that has one, and writes
\* nothing else; when no session is left it deletes the room and writes
\* nothing.
C13_PeerLeftToEveryAttached == [][C13_Step]_vars

\* a stream's close event deleted its session and a peer was told
C13_Witness ==
  /\ Handled("close")
  /\ DeletedBy(trace) # << >>
  /\ FramesOf(trace, "peer-left") # {}

(************************** C14 ******************************************)
\* stream s is open on the server: the server has not ended it and its
\* connection has not closed
Open(s) == ~streams[s].ended /\ ~streams[s].closed

\* C14: between steps, every stream that is open on the server was opened
\* for a client that is in the table of the stream's room: a teardown
\* leaves no stream of the removed client open.
C14_NoOpenStreamWithoutSession ==
  \A s \in 1..Len(streams) :
    Open(s) => InTable(streams[s].room, streams[s].clientId)

(************************** C15 ******************************************)
\* a field of a Join body that is missing, or empty once trimmed
Blank(v) == ~Truthy(v) \/ Trim(String(v)) = << >>

C15_Step ==
  Stepped("join") =>
    /\ \A body \in JoinBodies :
         (Join(body) /\ (body.t = "invalid" \/ Blank(body.room) \/ Blank(body.name))) =>
           Status(trace') = 400
    /\ Status(trace') = 400 =>
         /\ Len(trace') = 2
         /\ UNCHANGED << rooms, nextId, streams, joinLog, removed >>

\* C15: a Join whose body does not parse, or whose room or name is
\* missing or empty once trimmed, answers 400; a Join that answers 400
\* does nothing but answer: the registry is as it was, no id is drawn and
\* no stream is written.
C15_RejectedJoinChangesNothing == [][C15_Step]_vars

\* a Join was refused for its room or name while a room held a session
C15_Witness ==
  /\ trace = << Request("join"), Respond(400, ErrorBody("Missing room or name")) >>
  /\ rooms # NoRooms

(************************** C16 ******************************************)
C16_Step ==
  /\ \A r \in DOMAIN rooms \cap DOMAIN rooms' :
       \A k \in 1..Len(rooms[r]) :
         (Has(rooms'[r], rooms[r][k].id) /\ rooms[r][k].res # Null) =>
           Get(rooms'[r], rooms[r][k].id).res # Null
  /\ \A r \in DOMAIN rooms' :
       \A k \in 1..Len(rooms'[r]) :
         rooms'[r][k].res # Null =>
           /\ ~streams'[rooms'[r][k].res].closed
           /\ ~streams'[rooms'[r][k].res].ended
  /\ Stepped("close") =>
       \A s \in AttachedHandles :
         StreamClose(s) =>
           /\ DeletedBy(trace') = << streams[s].clientId >>
           /\ \A r \in DOMAIN rooms' : ~Has(rooms'[r], streams[s].clientId)

\* C16: the handle of a session that stays in the table never goes from
\* a stream back to null; the close event of the stream attached to a
\* session deletes the session in that step; and after every step no
\* session in a table has a handle that is closed or ended.
C16_SessionsMoveForward == [][C16_Step]_vars

\* the one stream a client had opened closed and took its session with
\* it, while another client's stream stayed
C16_Witness ==
  /\ Handled("close")
  /\ Len(streams) = 2
  /\ \E s \in 1..Len(streams) :
       /\ streams[s].closed /\ ~streams[s].ended
       /\ DeletedBy(trace) = << streams[s].clientId >>
       /\ \A t \in 1..Len(streams) :
            t # s => streams[t].clientId # streams[s].clientId

(************************** C17 ******************************************)
C17_Step ==
  Stepped("signal") =>
    \A body \in SignalBodies :
      (Signal(body) /\ Complete(body) /\ FramesOf(trace', "signal") # {}) =>
        InTable(String(body.room), String(body.from))

\* C17: a Signal step writes a signal frame only when the body's `from`
\* is a session in the table of the body's room.
C17_SenderIsMember == [][C17_Step]_vars

(************************** C18 ******************************************)
\* what stream s has been written, in order
Received(s) == SelectSeq(wire, LAMBDA x : x.s = s)

\* C18: in what each stream is written over any sequence of Joins,
\* Open-streams, Signals and heartbeat firings, the event line of a frame
\* is directly followed by the data line of the same frame and every data
\* line directly follows its event line: no keep-alive and no line of
\* another frame falls inside a frame.
C18_FramesAreContiguous ==
  \A s \in 1..Len(streams) :
    LET got == Received(s)
    IN \A i \in 1..Len(got) :
         /\ got[i].w.k = "event" =>
              /\ i < Len(got)
              /\ got[i + 1].w.k = "data"
              /\ got[i + 1].w.ev = got[i].w.ev
         /\ got[i].w.k = "data" =>
              /\ i > 1
              /\ got[i - 1].w.k = "event"
              /\ got[i - 1].w.ev = got[i].w.ev

\* a stream was written a keep-alive, a frame and a keep-alive in a row,
\* and has taken both a peer-joined and a signal frame
C18_Witness ==
  \E s \in 1..Len(streams) :
    LET got == Received(s)
    IN /\ \E i \in 1..(Len(got) - 3) :
            /\ got[i].w.k = "ping"
            /\ got[i + 1].w.k = "event"
            /\ got[i + 2].w.k = "data"
            /\ got[i + 3].w.k = "ping"
       /\ \E i \in 1..Len(got) : got[i].w.k = "data" /\ got[i].w.ev = "signal"
       /\ \E i \in 1..Len(got) : got[i].w.k = "data" /\ got[i].w.ev = "peer-joined"

(************************** C19 ******************************************)
\* the signal frames from sender f written to streams of client g, in order
SignalFrames(f, g) ==
  SelectSeq(wire, LAMBDA x : /\ x.w.k = "data"
                             /\ x.w.ev = "signal"
                             /\ x.w.p.from = f
                             /\ streams[x.s].clientId = g)

\* the Signals from f to g answered 204, in order
Relayed(f, g) == SelectSeq(relayed, LAMBDA x : x.from = f /\ x.target = g)

\* C19: for every sender and target, the signal frames from that sender
\* written to the target's streams are, in order, the Signals from that
\* sender to that target that were answered 204: each once, on the handle
\* the target had, carrying its data, none re-ordered.
C19_SignalsKeepTheirOrder ==
  \A f \in KnownIds, g \in { String(c) : c \in KnownIds } :
    /\ Len(SignalFrames(f, g)) = Len(Relayed(f, g))
    /\ \A i \in 1..Len(Relayed(f, g)) :
         /\ SignalFrames(f, g)[i].w.p.data = Relayed(f, g)[i].data
         /\ SignalFrames(f, g)[i].s = Relayed(f, g)[i].s

\* two Signals with different data from one sender to one target were
\* relayed, and a Signal of the other direction between them
C19_Witness ==
  \E f \in KnownIds, g \in { String(c) : c \in KnownIds } :
    /\ Len(Relayed(f, g)) = 2
    /\ Relayed(f, g)[1].data # Relayed(f, g)[2].data
    /\ Len(relayed) = 3
    /\ relayed[2].from # f

(************************** C20 ******************************************)
C20_Step ==
  /\ \A r \in DOMAIN rooms \ DOMAIN rooms' :
       Ids(rooms[r]) \subseteq { DeletedBy(trace')[k] : k \in 1..Len(DeletedBy(trace')) }
  /\ \A i \in 1..Len(joinLog') :
       LET c == joinLog'[i].answer
       IN Times(removed', c.clientId) = 0 =>
            /\ c.room \in DOMAIN rooms'
            /\ Has(rooms'[c.room], c.clientId)

\* C20: with Joins and Leaves suspended on their bodies and resumed in
\* any order among themselves and the stream closes, a step takes a room
\* out of the registry only if it deletes every session the room held,
\* and after every step each client a Join has answered 200 and no step
\* has deleted is in the table the registry holds for its room.
C20_JoinerIsNeverLost == [][C20_Step]_vars

\* a Join was suspended on its body while the last other session of its
\* room was deleted; it ran after that, made the room again and is in it
C20_Witness ==
  \E j \in 2..Len(joinLog) :
    /\ joinLog[j].raced >= 1
    /\ joinLog[j].created
    /\ JoinedRoom(JoinOf(removed[joinLog[j].gone])) = JoinedRoom(j)
    /\ InTable(JoinedRoom(j), JoinedId(j))

\* a Join ran while a Leave was suspended on its body; the Leave then
\* deleted the last other session of the room and the joiner stayed
C20_LeaveRanLast ==
  /\ Handled("leave")
  /\ DeletedBy(trace) # << >>
  /\ \E j \in 2..Len(joinLog) :
       /\ ~joinLog[j].created
       /\ joinLog[j].gone = Len(removed) - 1
       /\ JoinedRoom(j) \in DOMAIN rooms
       /\ Ids(rooms[JoinedRoom(j)]) = { JoinedId(j) }

(************************** C21 ******************************************)
\* C21: every write of a step, keep-alive or event line, goes to a
\* stream that is open on the server after the step: one the server has
\* not ended and whose close event has not been handled.
C21_WritesOnlyToOpenStreams ==
  \A i \in Indices(trace, "write") : Open(trace[i].s)


(************************** C22 ******************************************)
InCall == call.phase \in {"fetch", "delay"}
Settled == call.phase \in {"returned", "thrown"}
LastStatus == call.statuses[Len(call.statuses)]

\* the requests, answers and delays of a call of sendSignal, with at most
\* `most` requests: every answer before the last was a 409, the k-th delay
\* is k times SIGNAL_RETRY_DELAY_MS, a call waiting for its delay was
\* answered 409, a call that returned after an answer was answered a
\* success, and a call that threw was answered neither a success nor a 409
\* with attempts left
Retrying(most) ==
  /\ call.sent <= most
  /\ call.sent = Len(call.statuses) + (IF call.phase = "fetch" THEN 1 ELSE 0)
  /\ \A k \in 1..(Len(call.statuses) - 1) : call.statuses[k] = 409
  /\ \A k \in 1..Len(call.delays) : call.delays[k] = SIGNAL_RETRY_DELAY_MS * k
  /\ call.phase = "delay" =>
       LastStatus = 409 /\ Len(call.delays) = call.sent
  /\ call.phase = "returned" /\ call.ready => Ok(LastStatus)
  /\ call.phase = "returned" /\ call.statuses # << >> =>
       Ok(LastStatus) \/ (~call.ready /\ LastStatus = 409)
  /\ call.phase = "thrown" =>
       /\ ~Ok(LastStatus)
       /\ LastStatus = 409 => call.sent = most

\* C22 as stated: at most 5 Signal requests in total.
C22_AtMostFiveRequests == call.sent <= SIGNAL_RETRY_LIMIT

\* C22: sendSignal retries only after a 409, sends at most 6 requests in
\* total (the first and SIGNAL_RETRY_LIMIT retries) with a delay growing by
\* SIGNAL_RETRY_DELAY_MS each time, and every call ends: it returns on a
\* success and throws on another answer or when the retries are used up.
C22_RetriesAreBounded ==
  /\ [](Retrying(SIGNAL_RETRY_LIMIT + 1))
  /\ (InCall ~> Settled)

\* the retries were used up: six requests, each answered 409
C22_Witness ==
  /\ call.phase = "thrown"
  /\ call.sent = SIGNAL_RETRY_LIMIT + 1
  /\ call.delays = << 250, 500, 750, 1000, 1250 >>
  /\ \A k \in 1..Len(call.statuses) : call.statuses[k] = 409

\* a retry that succeeded
C22_Recovered ==
  /\ call.phase = "returned"
  /\ call.sent = 3
  /\ call.statuses = << 409, 409, 204 >>


(************************** C23 ******************************************)
\* C23: on a POST request, whatever the registry, the handler of
\* api/join.js and handleJoin give the same result for a body with the same
\* room and name, however the body reaches the former (parsed, as a text
\* or not at all): the same registry, and the same effects in the same
\* order, which are the response with its status and body and, after it,
\* the peer-joined frames; when room or name is missing that result is the
\* registry as it was and a 400.
C23_SameJoinLogic ==
  \A payload \in Payloads \ { Garbage } : \A reqBody \in ReqBodies(payload) :
    LET mine == Handler(rooms, nextId, "POST", reqBody)
        theirs == HandleJoinResult(rooms, nextId, ParseBody(payload))
        body == ParseBody(payload)
    IN /\ mine = theirs
       /\ RoomIdOf(body.room) = << >> \/ UserNameOf(body.name) = << >> =>
            /\ mine.rooms = rooms
            /\ Status(mine.effs) = 400

\* api/join.js has answered a Join into a room whose other session has a
\* stream: a 200 and then the peer-joined frame
C23_Witness ==
  /\ Handled("api/join")
  /\ Len(trace) > 2
  /\ trace[2].e = "respond" /\ trace[2].status = 200
  /\ trace[2].body.peers # << >>
  /\ trace[3].e = "write"


(************************** C24 ******************************************)
\* the room a request names ("" when it names none)
Named(v) == IF Truthy(v) THEN String(v) ELSE << >>
NamedBy(body) == IF body.t = "invalid" THEN << >> ELSE Named(body.room)

\* the handles in the table of room r, before and after the step
HandlesIn(reg, r) == { reg[r][k].res : k \in 1..Len(reg[r]) } \ { Null }

\* the step leaves every room but R as it was and writes to no handle of
\* a table other than R's
Isolated(R) ==
  /\ \A r \in (DOMAIN rooms \cup DOMAIN rooms') \ { R } :
       /\ r \in DOMAIN rooms
       /\ r \in DOMAIN rooms'
       /\ rooms'[r] = rooms[r]
  /\ \A i \in Indices(trace', "write") :
       /\ \A r \in DOMAIN rooms \ { R } : trace'[i].s \notin HandlesIn(rooms, r)
       /\ \A r \in DOMAIN rooms' \ { R } : trace'[i].s \notin HandlesIn(rooms', r)

C24_Step ==
  /\ Stepped("join") =>
       \A body \in JoinBodies :
         JoinRun(body, Len(joinLog), Len(removed)) =>
           Isolated(IF body.t = "invalid" THEN << >> ELSE RoomIdOf(body.room))
  /\ Stepped("signal") =>
       \A body \in SignalBodies : SignalRun(body) => Isolated(NamedBy(body))
  /\ Stepped("leave") =>
       \A body \in LeaveBodies : LeaveRun(body) => Isolated(NamedBy(body))
  /\ Stepped("open") =>
       \A q \in StreamParams : OpenStreamRun(q[1], q[2]) => Isolated(Named(q[1]))
  /\ Stepped("close") =>
       \A s \in 1..Len(streams) : StreamClose(s) => Isolated(streams[s].room)

\* C24: a Join, Open-stream, Signal, Leave or close event leaves the table
\* of every room other than the one it names as it was, and writes to no
\* stream held by a session of another room, whatever clientId it carries.
C24_RoomsAreIsolated == [][C24_Step]_vars

\* a Signal was relayed in one room while a session of another room had
\* its stream
C24_Witness ==
  /\ Handled("signal")
  /\ Status(trace) = 204
  /\ \E r1, r2 \in DOMAIN rooms :
       /\ r1 # r2
       /\ HandlesIn(rooms, r2) # {}
       /\ \E i \in Indices(trace, "write") : trace[i].s \in HandlesIn(rooms, r1)

\* a Leave that names a room and the clientId of a session of another
\* room: nothing is deleted
C24_SameIdElsewhere ==
  /\ Handled("leave")
  /\ Status(trace) = 204
  /\ DeletedBy(trace) = << >>
  /\ Cardinality(DOMAIN rooms) = 2
  /\ AttachedHandles # {}


(************************** C25 ******************************************)
C25_Step ==
  Stepped("signal") =>
    /\ Status(trace') \in { 204, 400, 404, 409 }
    /\ rooms' = rooms
    /\ DeletedBy(trace') = << >>
    /\ EndedBy(trace') = {}
    /\ UNCHANGED << nextId, removed >>

\* C25: a Signal, whatever it answers (204, 400, 404 or 409), leaves the
\* registry as it was: the same rooms, the same sessions in them and the
\* same handles; it deletes no session and ends no stream.
C25_SignalReadsOnly == [][C25_Step]_vars

\* a Signal naming a room that is not in the registry was answered 404
\* next to a room that is, and the registry holds that room alone
C25_Witness ==
  /\ Handled("signal")
  /\ Status(trace) = 404
  /\ DOMAIN rooms = { String(RoomA) }

\* a Signal was relayed and the handle it wrote to is still in the table
C25_Relayed ==
  /\ Handled("signal")
  /\ Status(trace) = 204
  /\ \E i \in Indices(trace, "write") : trace[i].s \in AttachedHandles


(************************** C26 ******************************************)
\* stream s was replaced as the handle of its session by a stream that
\* is attached still
Superseded(s) ==
  /\ InTable(streams[s].room, streams[s].clientId)
  /\ Get(rooms[streams[s].room], streams[s].clientId).res \notin { Null, s }

C26_Step ==
  Stepped("close") =>
    \A s \in 1..Len(streams) :
      StreamClose(s) /\ Superseded(s) =>
        /\ rooms' = rooms
        /\ DeletedBy(trace') = << >>
        /\ FramesOf(trace', "peer-left") = {}

\* C26: the close event of a stream that a later Open-stream replaced as
\* the handle of its session, while that later stream is attached, removes
\* no session and writes no peer-left frame.
C26_SupersededCloseIsIgnored == [][C26_Step]_vars


(************************** C27 ******************************************)
\* C27: of two sessions that are in the table of the same room, the one
\* that joined later was answered the other in the peers of its Join, with
\* or without a stream attached to the earlier one.
C27_LaterJoinerKnowsEarlier ==
  \A i \in 1..Len(joinLog), j \in 1..Len(joinLog) :
    (/\ i < j
     /\ JoinedRoom(i) = JoinedRoom(j)
     /\ InTable(JoinedRoom(i), JoinedId(i))
     /\ InTable(JoinedRoom(j), JoinedId(j))) =>
      JoinedId(i) \in PeerIds(j)

\* two sessions share a room and the earlier one never had a stream, so
\* no peer-joined frame told it of the later one
C27_Witness ==
  \E i \in 1..Len(joinLog), j \in 1..Len(joinLog) :
    /\ i < j
    /\ JoinedRoom(i) = JoinedRoom(j)
    /\ InTable(JoinedRoom(i), JoinedId(i))
    /\ InTable(JoinedRoom(j), JoinedId(j))
    /\ Get(rooms[JoinedRoom(i)], JoinedId(i)).res = Null
    /\ \A s \in 1..Len(streams) : streams[s].clientId # JoinedId(i)
    /\ JoinedId(i) \in PeerIds(j)


(************************** C28 ******************************************)
\* C28: every handle in a session table is a stream the server has not
\* ended and whose close event has not been handled; and every write of
\* a Join, Signal, Leave or close step (the relayed Signal, the peer-joined
\* and peer-left frames) goes to a handle that is in a table and is such a
\* stream.
C28_HandlesAreOpen ==
  /\ \A s \in AttachedHandles : s \in 1..Len(streams) /\ Open(s)
  /\ Handled("join") \/ Handled("signal") \/ Handled("leave") \/ Handled("close") =>
       \A i \in Indices(trace, "write") :
         trace[i].s \in AttachedHandles /\ Open(trace[i].s)

\* a Signal was relayed to an attached stream after a teardown had ended
\* or closed another stream
C28_Witness ==
  /\ Handled("signal")
  /\ Status(trace) = 204
  /\ removed # << >>
  /\ \E s \in 1..Len(streams) : ~Open(s)
  /\ \E i \in Indices(trace, "write") : trace[i].s \in AttachedHandles

\* a peer-left frame went to the stream of the session that stayed
C28_Notified ==
  /\ Handled("leave") \/ Handled("close")
  /\ \E i \in FramesOf(trace, "peer-left") : trace[i].s \in AttachedHandles

====
